---------------------------- MODULE Spec2Model ----------------------------
(***************************************************************************)
(* Model of the AWH dashboard's telemetry-to-metrics pipeline:             *)
(*   src/data_play.py     calculate_water_production, the helpers and the  *)
(*                        segmented process_data                           *)
(*   src/data_play-01.py  process_data with the gated efficiency           *)
(*   src/ui_display.py    process_data as the display module carries it    *)
(*                                                                         *)
(* Numbers are fixed point.  A pandas NaN / Python None is the value NaN.  *)
(*   weight            grams                                               *)
(*   time              seconds; an interval is counted in 1/TimeScale s    *)
(*   volume            1/VolScale litre                                    *)
(*   energy            1/EnergyScale kWh                                   *)
(*   velocity          1/VelScale m/s                                      *)
(*   efficiency        1/EffScale percent                                  *)
(***************************************************************************)
EXTENDS Integers, Sequences, FiniteSets, TLC

VARIABLES
    pc,                 \* position in the function being executed
    df,                 \* process_data: the working DataFrame (record of columns)
    args,               \* process_data: the keyword arguments of the call
    weight_series,      \* calculate_water_production: the argument
    water_production,   \* calculate_water_production: the list built so far
    total,              \* calculate_water_production: running total (g)
    prev,               \* calculate_water_production: previous valid reading
    caller_df,          \* process_data: the table object the caller passed
    alias               \* process_data: the local name df is bound to that object

vars == <<pc, df, args, weight_series, water_production, total, prev, caller_df, alias>>

\* The missing value (NaN, None, NaT).  It lies outside every modelled range.
NaN == 0 - (2^30)

isnull(x) == x = NaN
notnull(x) == x # NaN

\* ------------------------------------------------------------------------
\* Fixed-point scales
\* ------------------------------------------------------------------------
\* halves (a median of two integers) and thirds (med/3) of a second
TimeScale == 2 * 3
\* tenths of a m/s
VelScale == 2 * 5
\* ah[g/m3] * vel[m/s] * area[m2] * interval[s] / 1000 litres, as an integer
VolScale == 1000 * VelScale * TimeScale
\* units of volume per gram of water: total / 1000.0 litres
GramsToLitres(g) == (g * VolScale) \div 1000

\* ------------------------------------------------------------------------
\* Sequence helpers
\* ------------------------------------------------------------------------
Max2(a, b) == IF a >= b THEN a ELSE b
Min2(a, b) == IF a <= b THEN a ELSE b

RECURSIVE SeqsUpTo(_, _)
\* all sequences over S of length 0..n
SeqsUpTo(S, n) ==
    IF n = 0 THEN {<<>>}
    ELSE LET shorter == SeqsUpTo(S, n - 1)
         IN  shorter \cup {Append(s, x) : s \in {t \in shorter : Len(t) = n - 1}, x \in S}

SeqsOfLen(S, n) == {s \in SeqsUpTo(S, n) : Len(s) = n}

\* the non-missing entries of a series, in order
DropNa(s) == SelectSeq(s, notnull)

\* ========================================================================
\* pandas helpers used by process_data
\* ========================================================================
Rows(col) == 1..Len(col)

\* rint: x / q rounded to the nearest integer, ties to the even one (q > 0)
RoundHalfEven(x, q) ==
    LET f == x \div q
        r == x % q
    IN  IF 2 * r < q THEN f
        ELSE IF 2 * r > q THEN f + 1
        ELSE IF f % 2 = 0 THEN f ELSE f + 1

\* Series.round(decimals) of a value counted in 1/scale: q = scale / 10^decimals
RoundTo(x, q) == IF isnull(x) THEN NaN ELSE q * RoundHalfEven(x, q)

\* Series.diff()
Diff(col) ==
    [i \in Rows(col) |->
        IF i = 1 \/ isnull(col[i]) \/ isnull(col[i - 1]) THEN NaN
        ELSE col[i] - col[i - 1]]

\* Series.fillna(v)
FillNa(col, v) == [i \in Rows(col) |-> IF isnull(col[i]) THEN v ELSE col[i]]

\* Series.clip(lower=lo): a missing value stays missing
ClipLower(col, lo) ==
    [i \in Rows(col) |-> IF isnull(col[i]) THEN NaN ELSE Max2(col[i], lo)]

\* Series.iloc[1:]
Tail1(col) == IF Len(col) <= 1 THEN <<>> ELSE SubSeq(col, 2, Len(col))

\* the rows in ascending order of key, ties in their original order
SortOrder(key, kept) ==
    LET rank(i) == Cardinality({j \in kept : key[j] < key[i] \/ (key[j] = key[i] /\ j < i)}) + 1
    IN  [k \in 1..Cardinality(kept) |-> CHOOSE i \in kept : rank(i) = k]

\* Series.median(): missing values are skipped; NaN when nothing is left
Median(col) ==
    LET x == DropNa(col)
        n == Len(x)
        sorted == [k \in 1..n |-> x[SortOrder(x, 1..n)[k]]]
    IN  IF n = 0 THEN NaN
        ELSE IF n % 2 = 1 THEN sorted[(n + 1) \div 2]
        ELSE (sorted[n \div 2] + sorted[n \div 2 + 1]) \div 2

\* a flag column cell: "True", "False" or "NaN" (missing)
Flags == {"True", "False", "NaN"}
\* Series.fillna(default).astype(bool)
FlagsToBool(col, default) ==
    [i \in Rows(col) |-> IF col[i] = "NaN" THEN default ELSE col[i] = "True"]

\* groupby(key)[col].cumsum(): per group running sum; a missing value gives
\* a missing cell and is skipped by the running sum
GroupCumsum(col, key) ==
    LET RECURSIVE upto(_, _)
        upto(i, j) ==
            IF j = 0 THEN 0
            ELSE upto(i, j - 1)
                 + (IF key[j] = key[i] /\ notnull(col[j]) THEN col[j] ELSE 0)
    IN  [i \in Rows(col) |-> IF isnull(col[i]) THEN NaN ELSE upto(i, i)]

\* the row before i in i's group (0: i is the group's first row)
GroupPrev(key, i) ==
    LET before == {j \in 1..(i - 1) : key[j] = key[i]}
    IN  IF before = {} THEN 0 ELSE CHOOSE j \in before : \A k \in before : k <= j

\* groupby(key)[col].diff()
GroupDiff(col, key) ==
    [i \in Rows(col) |->
        LET j == GroupPrev(key, i)
        IN  IF j = 0 \/ isnull(col[i]) \/ isnull(col[j]) THEN NaN ELSE col[i] - col[j]]

\* the row n places after i in i's group (0: there is none)
GroupAhead(key, i, n) ==
    LET after == {j \in (i + 1)..Len(key) : key[j] = key[i]}
        nth == {j \in after : Cardinality({k \in after : k <= j}) = n}
    IN  IF n = 0 THEN i ELSE IF nth = {} THEN 0 ELSE CHOOSE j \in nth : TRUE

\* groupby(key)[col].shift(-n)
GroupShiftBack(col, key, n) ==
    [i \in Rows(col) |->
        LET j == GroupAhead(key, i, n) IN IF j = 0 THEN NaN ELSE col[j]]

\* ========================================================================
\* calculate_water_production(weight_series)
\* ========================================================================

\* One iteration of the loop body on reading w, from state st = [total, prev, out].
CwpStepDropAddsNegative(st, w) ==
    IF isnull(w) THEN [st EXCEPT !.out = Append(@, NaN)]
    ELSE LET t == IF isnull(st.prev) THEN w ELSE st.total + (w - st.prev)
         IN  [total |-> t, prev |-> w, out |-> Append(st.out, GramsToLitres(t))]

CwpStepKeepsPrevOnDrop(st, w) ==
    IF isnull(w) THEN [st EXCEPT !.out = Append(@, NaN)]
    ELSE LET t == IF isnull(st.prev) THEN w
                  ELSE IF w >= st.prev THEN st.total + (w - st.prev)
                  ELSE st.total
             p == IF notnull(st.prev) /\ w < st.prev THEN st.prev ELSE w
         IN  [total |-> t, prev |-> p, out |-> Append(st.out, GramsToLitres(t))]

CwpStepMissingForgetsPrev(st, w) ==
    IF isnull(w) THEN [st EXCEPT !.out = Append(@, NaN), !.prev = NaN]
    ELSE LET t == IF isnull(st.prev) THEN w
                  ELSE IF w >= st.prev THEN st.total + (w - st.prev)
                  ELSE st.total
         IN  [total |-> t, prev |-> w, out |-> Append(st.out, GramsToLitres(t))]

CwpStep(st, w) ==
    IF isnull(w)
    THEN [st EXCEPT !.out = Append(@, NaN)]                 \* append(None); continue
    ELSE LET t == IF isnull(st.prev) THEN w                 \* prev is None: total = w
                  ELSE IF w >= st.prev THEN st.total + (w - st.prev)
                  ELSE st.total                             \* a drop adds nothing
         IN  [total |-> t, prev |-> w, out |-> Append(st.out, GramsToLitres(t))]

CwpInit == [total |-> 0, prev |-> NaN, out |-> <<>>]

RECURSIVE CwpRun(_)
\* the loop's state after the whole of series s
CwpRun(s) ==
    IF s = <<>> THEN CwpInit
    ELSE CwpStep(CwpRun(SubSeq(s, 1, Len(s) - 1)), s[Len(s)])

\* the returned Series
calculate_water_production(s) == CwpRun(s).out

\* ---- the loop as a state machine ---------------------------------------
MaxReadings == 4
Weights == {40, 90, 100, 150}

CwpState == [total |-> total, prev |-> prev, out |-> water_production]
CwpNextReading == weight_series[Len(water_production) + 1]

CwpApply ==
    LET st == CwpStep(CwpState, CwpNextReading)
    IN  /\ total' = st.total
        /\ prev' = st.prev
        /\ water_production' = st.out
        /\ UNCHANGED <<pc, df, args, weight_series, caller_df, alias>>

CwpLooping == pc = "cwp_loop" /\ Len(water_production) < Len(weight_series)

\* if pd.isnull(weight): append None, continue
CwpMissing == CwpLooping /\ isnull(CwpNextReading) /\ CwpApply
\* prev is None: total = w
CwpFirst == CwpLooping /\ notnull(CwpNextReading) /\ isnull(prev) /\ CwpApply
\* w >= prev: total += w - prev
CwpIncrease ==
    CwpLooping /\ notnull(CwpNextReading) /\ notnull(prev) /\ CwpNextReading >= prev /\ CwpApply
\* w < prev: total unchanged
CwpDrop ==
    CwpLooping /\ notnull(CwpNextReading) /\ notnull(prev) /\ CwpNextReading < prev /\ CwpApply
\* return pd.Series(water_production, index=weight_series.index)
CwpReturn ==
    /\ pc = "cwp_loop" /\ Len(water_production) = Len(weight_series)
    /\ pc' = "cwp_done"
    /\ UNCHANGED <<df, args, weight_series, water_production, total, prev, caller_df, alias>>

InitCwp ==
    /\ pc = "cwp_loop"
    /\ weight_series \in SeqsUpTo(Weights \cup {NaN}, MaxReadings)
    /\ water_production = <<>>
    /\ total = 0
    /\ prev = NaN
    /\ df = <<>>
    /\ args = <<>>
    /\ caller_df = <<>>
    /\ alias = FALSE

NextCwp == CwpMissing \/ CwpFirst \/ CwpIncrease \/ CwpDrop \/ CwpReturn

SpecCwp == InitCwp /\ [][NextCwp]_vars

\* ------------------------------------------------------------------------
\* Claims about calculate_water_production (checked under SpecCwp)
\* ------------------------------------------------------------------------
\* rows written so far
CwpRows == 1..Len(water_production)
CwpValidRows == {i \in CwpRows : notnull(weight_series[i])}
\* the last row before i with a reading (0: none)
CwpPrevValid(i) ==
    LET before == {j \in CwpValidRows : j < i}
    IN  IF before = {} THEN 0 ELSE CHOOSE j \in before : \A k \in before : k <= j

\* C1: from one non-missing row to the next non-missing row the cumulative
\* output never decreases, and a reading lower than the previous valid
\* reading contributes zero (the output stays what it was).
C1_NeverDecreases ==
    \A i \in CwpValidRows :
        /\ notnull(water_production[i])
        /\ CwpPrevValid(i) # 0 =>
              LET j == CwpPrevValid(i)
              IN  /\ water_production[i] >= water_production[j]
                  /\ weight_series[i] < weight_series[j]
                        => water_production[i] = water_production[j]

\* a finished run with a missing row between a reading and a lower reading
C1_Witness ==
    /\ pc = "cwp_done"
    /\ \E i \in CwpValidRows :
          /\ CwpPrevValid(i) # 0
          /\ CwpPrevValid(i) < i - 1
          /\ weight_series[i] < weight_series[CwpPrevValid(i)]
          /\ water_production[i] = water_production[CwpPrevValid(i)]

RECURSIVE SumOfRises(_, _)
\* r[1] + sum over j in 2..i of max(r[j] - r[j-1], 0)
SumOfRises(r, i) ==
    IF i = 1 THEN r[1] ELSE SumOfRises(r, i - 1) + Max2(r[i] - r[i - 1], 0)

NonDecreasing(r) == \A i \in 1..(Len(r) - 1) : r[i] <= r[i + 1]
NoneMissing(r) == \A i \in 1..Len(r) : notnull(r[i])

\* C2: on a series without missing readings the output at row i is
\* (r[1] + the sum of the positive rises up to i) / 1000 litres;
\* [100, 150, 40, 90] g gives [0.1, 0.15, 0.15, 0.20] L; a non-decreasing
\* series gives r[i] / 1000 at every row.
C2_SumOfRises ==
    NoneMissing(weight_series) =>
        /\ \A i \in CwpRows :
              1000 * water_production[i] = VolScale * SumOfRises(weight_series, i)
        /\ (pc = "cwp_done" /\ weight_series = <<100, 150, 40, 90>>)
              => water_production = <<VolScale \div 10, (15 * VolScale) \div 100,
                                      (15 * VolScale) \div 100, VolScale \div 5>>
        /\ NonDecreasing(weight_series)
              => \A i \in CwpRows : 1000 * water_production[i] = VolScale * weight_series[i]

C2_Witness ==
    /\ pc = "cwp_done"
    /\ weight_series = <<100, 150, 40, 90>>
    /\ water_production[4] = VolScale \div 5

\* C3: a missing reading gives a missing output at its row and leaves the
\* running total and the remembered previous reading as they were: total,
\* prev and the outputs of the rows with a reading are those of the run on
\* the series with its missing rows removed.
C3_MissingRowsSkipped ==
    LET seen == SubSeq(weight_series, 1, Len(water_production))
        ref == CwpRun(DropNa(seen))
    IN  /\ \A i \in CwpRows : isnull(weight_series[i]) <=> isnull(water_production[i])
        /\ total = ref.total
        /\ prev = ref.prev
        /\ DropNa(water_production) = ref.out

\* a finished run with a missing row after the first reading and before the last
C3_Witness ==
    /\ pc = "cwp_done"
    /\ \E i \in CwpRows :
          /\ isnull(weight_series[i]) /\ isnull(water_production[i])
          /\ \E j \in CwpValidRows : j < i
          /\ \E k \in CwpValidRows : k > i /\ weight_series[k] > weight_series[CwpPrevValid(k)]

\* ========================================================================
\* data_play.py: helpers
\* ========================================================================
\* 1e-6 kWh and W * (1/TimeScale s) are both whole numbers of energy units
EnergyScale == 5 * TimeScale * 3600 * 1000
\* hundredths of a percent: round(x, 2)
EffScale == 10 * 10
\* round(3) of a volume, round(6) of an energy
Round3(x) == RoundTo(x, VolScale \div 1000)
Round6(x) == RoundTo(x, EnergyScale \div 1000000)

\* rf.astype(int).cumsum() with rf = reset_flags.fillna(False).astype(bool)
BlockIdsLate(reset_flags) ==
    LET rf == FlagsToBool(reset_flags, FALSE)
    IN  [i \in Rows(rf) |-> Cardinality({j \in 1..(i - 1) : rf[j]})]

_block_ids_from_resets(reset_flags) ==
    LET rf == FlagsToBool(reset_flags, FALSE)
    IN  [i \in Rows(rf) |-> Cardinality({j \in 1..i : rf[j]})]

\* values.where(keep, 0) with keep = counting.fillna(True).astype(bool);
\* counting is None when no count column is configured
_apply_pause_mask(values, counting, given) ==
    IF ~given THEN values
    ELSE LET keep == FlagsToBool(counting, TRUE)
         IN  [i \in Rows(values) |-> IF keep[i] THEN values[i] ELSE 0]

\* median, or the fallback when the series is empty or its median is NaN
_safe_median(x, fallback) ==
    IF Len(x) = 0 THEN fallback
    ELSE IF isnull(Median(x)) THEN fallback
    ELSE Median(x)

\* _freeze_after_flag on the sub-series of the rows `labels` (a block's index
\* labels) with f the block's boolean freeze flags.
FreezeFirstIdx(labels, f) ==
    LET on == {l \in labels : f[l]}
    IN  CHOOSE l \in on : \A m \in on : l <= m
LabelsMin(labels) == CHOOSE l \in labels : \A m \in labels : l <= m

\* out.loc[first_idx - 1] raises KeyError when that label is not in the block
FreezeRaises(labels, f) ==
    /\ \E l \in labels : f[l]
    /\ FreezeFirstIdx(labels, f) > LabelsMin(labels)
    /\ (FreezeFirstIdx(labels, f) - 1) \notin labels

\* every row of a block with a true flag takes the frozen value
FreezeWholeBlock(series, labels, f, l) ==
    IF ~(\E m \in labels : f[m]) THEN series[l]
    ELSE LET first_idx == FreezeFirstIdx(labels, f)
         IN  IF first_idx > LabelsMin(labels) THEN series[first_idx - 1]
             ELSE series[first_idx]

\* the value at row l of the returned series
FreezeAtOwnValue(series, labels, f, l) ==
    IF ~(\E m \in labels : f[m]) THEN series[l]
    ELSE LET first_idx == FreezeFirstIdx(labels, f)
         IN  IF l >= first_idx THEN series[first_idx] ELSE series[l]

_freeze_after_flag(series, labels, f, l) ==
    IF ~(\E m \in labels : f[m]) THEN series[l]                 \* not f.any()
    ELSE LET first_idx == FreezeFirstIdx(labels, f)
             last_val == IF first_idx > LabelsMin(labels)
                         THEN series[first_idx - 1]
                         ELSE series[first_idx]
         IN  IF l >= first_idx THEN last_val ELSE series[l]     \* out.loc[first_idx:] = last_val

\* ========================================================================
\* data_play.py: process_data
\*
\* df holds the input columns timestamp (s), weight (g), power (W),
\* velocity (intake_air_velocity, 1/VelScale m/s), ah
\* (absolute_intake_air_humidity, g/m3, as calculate_absolute_humidity
\* left it), the flag columns reset, counting, freeze and the session id
\* column session; the columns the function adds are empty until the stage
\* that writes them.
\* args.reset_col, count_col, freeze_col, session_col say whether the
\* keyword was given and names a column of df.
\* ========================================================================
\* ---- the caller's table and the local name df ---------------------------
\* df = df.copy() binds df to a new object (deep copy): df names the caller's
\* object afterwards only if no copy is taken
NamesCallerTableWithoutCopy == TRUE

NamesCallerTable == FALSE

\* line 111
CopyOnEntry ==
    /\ df' = df
    /\ alias' = NamesCallerTable
    /\ caller_df' = caller_df

\* df[...] = ..., df.loc[...] = ..., df.rename(..., inplace=True): the object
\* df names is written; the caller sees the writes if it is the caller's
WritesInPlace ==
    /\ caller_df' = (IF alias THEN df' ELSE caller_df)
    /\ alias' = alias

\* in-place writes giving `written`, then df = df.dropna(...)...: df is
\* rebound to a new object
WritesThenRebinds(written) ==
    /\ caller_df' = (IF alias THEN written ELSE caller_df)
    /\ alias' = FALSE

\* a timestamp cell that does not parse as a date
Unparsable == NaN + 1

\* pd.to_datetime(col, errors="coerce"): what does not parse becomes NaT
to_datetime(col) == [i \in Rows(col) |-> IF col[i] = Unparsable THEN NaN ELSE col[i]]

InputColumns ==
    {"timestamp", "weight", "power", "velocity", "ah", "reset", "counting", "freeze", "pump_on",
     "session"}

NRows == Len(df.timestamp)

\* df.dropna(subset=["timestamp"]).sort_values("timestamp").reset_index(drop=True)
SortedByTimestamp(d) ==
    LET kept == {i \in Rows(d.timestamp) : notnull(d.timestamp[i])}
        order == SortOrder(d.timestamp, kept)
    IN  [c \in DOMAIN d |->
            IF c \in InputColumns THEN [k \in 1..Cardinality(kept) |-> d[c][order[k]]]
            ELSE d[c]]

\* df["timestamp"].diff().dt.total_seconds()
DiffSeconds(ts) ==
    LET d == Diff(ts)
    IN  [i \in Rows(ts) |-> IF isnull(d[i]) THEN NaN ELSE d[i] * TimeScale]

FallbackInterval == 30

SampleInterval(ts) ==
    LET raw == DiffSeconds(ts)
        median_interval == _safe_median(Tail1(raw), FallbackInterval * TimeScale)
        filled == FillNa(raw, median_interval)
    IN  [i \in Rows(ts) |-> IF filled[i] < 0 THEN median_interval ELSE filled[i]]

\* line 111
DpEntry ==
    /\ pc = "dp_entry"
    /\ CopyOnEntry
    /\ pc' = "dp_timestamps"
    /\ UNCHANGED <<args, weight_series, water_production, total, prev>>

\* lines 114-121
DpTimestamps ==
    /\ pc = "dp_timestamps"
    /\ LET converted == [df EXCEPT !.timestamp = to_datetime(@)]
           sorted == SortedByTimestamp(converted)
       IN  /\ df' = [sorted EXCEPT !.sample_interval = SampleInterval(sorted.timestamp)]
           /\ WritesThenRebinds(converted)
    /\ pc' = "dp_steps"
    /\ UNCHANGED <<args, weight_series, water_production, total, prev>>

\* intake water step (L), lines 167-180
IntakeStep(ah, vel, interval, intake_area) ==
    IF notnull(ah) /\ notnull(vel) /\ notnull(interval) /\ vel > 0
    THEN ah * vel * intake_area * interval      \* / 1000.0, in 1/VolScale litre
    ELSE 0

\* energy step (kWh) from instantaneous power (W), lines 183-192
EnergyStepFromPower(power, ts) ==
    LET freq_seconds == _safe_median(Tail1(DiffSeconds(ts)), 0)
    IN  [i \in Rows(power) |->
            IF isnull(power[i]) THEN NaN
            ELSE power[i] * freq_seconds * (EnergyScale \div (TimeScale * 3600 * 1000))]

\* lines 165-192
DpStepTerms ==
    /\ pc = "dp_steps"
    /\ df' = [df EXCEPT
                !.intake_step_L =
                    [i \in 1..NRows |->
                        IntakeStep(df.ah[i], df.velocity[i], df.sample_interval[i], args.intake_area)],
                !.energy_step_from_power_kWh = EnergyStepFromPower(df.power, df.timestamp)]
    /\ pc' = "dp_weight"
    /\ WritesInPlace
    /\ UNCHANGED <<args, weight_series, water_production, total, prev>>

\* lines 194-201
DpWaterRaw ==
    /\ pc = "dp_weight"
    /\ df' = [df EXCEPT !.water_production_raw = calculate_water_production(df.weight)]
    /\ pc' = "dp_mask"
    /\ WritesInPlace
    /\ UNCHANGED <<args, weight_series, water_production, total, prev>>

\* lines 203-206
DpPauseMask ==
    /\ pc = "dp_mask"
    /\ df' = [df EXCEPT
                !.intake_step_L = _apply_pause_mask(@, df.counting, args.count_col),
                !.energy_step_kWh =
                    _apply_pause_mask(df.energy_step_from_power_kWh, df.counting, args.count_col)]
    /\ pc' = "dp_blocks"
    /\ WritesInPlace
    /\ UNCHANGED <<args, weight_series, water_production, total, prev>>

\* the rows of row i's session, the sub-series of col on the rows `rows` and
\* the position of row i among them
SessionRows(d, i) == {j \in Rows(d.session) : d.session[j] = d.session[i]}
SubSeries(col, rows) ==
    LET order == SortOrder([j \in Rows(col) |-> j], rows)
    IN  [k \in 1..Cardinality(rows) |-> col[order[k]]]
PositionIn(rows, i) == Cardinality({j \in rows : j <= i})

\* df.groupby(session_col)[reset_col].apply(_block_ids_from_resets), put back
\* on the rows by their index
BlockIdsPerSession(d) ==
    [i \in Rows(d.session) |->
        _block_ids_from_resets(SubSeries(d.reset, SessionRows(d, i)))
            [PositionIn(SessionRows(d, i), i)]]

\* df.groupby(session_col).ngroup(): the groups numbered in key order
SessionNGroup(d) ==
    [i \in Rows(d.session) |->
        Cardinality({d.session[j] : j \in {k \in Rows(d.session) : d.session[k] < d.session[i]}})]

\* lines 208-222
BlockIds(d, a) ==
    IF a.session_col
    THEN IF a.reset_col THEN BlockIdsPerSession(d) ELSE SessionNGroup(d)
    ELSE IF a.reset_col THEN _block_ids_from_resets(d.reset)
    ELSE [i \in Rows(d.timestamp) |-> 0]

DpBlocks ==
    /\ pc = "dp_blocks"
    /\ df' = [df EXCEPT !.block_id = BlockIds(df, args)]
    /\ pc' = "dp_accumulate"
    /\ WritesInPlace
    /\ UNCHANGED <<args, weight_series, water_production, total, prev>>

\* lines 230-233
ProductionStep(d, a) ==
    LET prod_step == FillNa(ClipLower(GroupDiff(d.water_production_raw, d.block_id), 0), 0)
    IN  _apply_pause_mask(prod_step, d.counting, a.count_col)

\* Series.round(3) and Series.round(6), value by value
RoundCol3(col) == [i \in Rows(col) |-> Round3(col[i])]

RoundCol6(col) == [i \in Rows(col) |-> Round6(col[i])]

\* lines 224-237
DpAccumulate ==
    /\ pc = "dp_accumulate"
    /\ LET prod_step == ProductionStep(df, args)
       IN  df' = [df EXCEPT
                    !.accumulated_intake_water =
                        RoundCol3(GroupCumsum(df.intake_step_L, df.block_id)),
                    !.accumulated_energy_kWh =
                        RoundCol6(GroupCumsum(df.energy_step_kWh, df.block_id)),
                    !.production_step_L = prod_step,
                    !.water_production =
                        RoundCol3(GroupCumsum(prod_step, df.block_id))]
    /\ pc' = "dp_freeze"
    /\ WritesInPlace
    /\ UNCHANGED <<args, weight_series, water_production, total, prev>>

BlockLabels(d, i) == {j \in Rows(d.block_id) : d.block_id[j] = d.block_id[i]}

\* freeze is not None and freeze.fillna(False).any()
FreezeApplies(d, a) == a.freeze_col /\ \E i \in Rows(d.freeze) : FlagsToBool(d.freeze, FALSE)[i]

Frozen(d, series) ==
    LET f == FlagsToBool(d.freeze, FALSE)
    IN  [i \in Rows(series) |-> _freeze_after_flag(series, BlockLabels(d, i), f, i)]

\* lines 239-247
DpFreeze ==
    /\ pc = "dp_freeze"
    /\ IF ~FreezeApplies(df, args)
       THEN pc' = "dp_efficiency" /\ df' = df
       ELSE IF \E i \in 1..NRows : FreezeRaises(BlockLabels(df, i), FlagsToBool(df.freeze, FALSE))
       THEN pc' = "dp_raised" /\ df' = df
       ELSE /\ pc' = "dp_efficiency"
            /\ df' = [df EXCEPT
                        !.accumulated_intake_water = Frozen(df, @),
                        !.water_production = Frozen(df, @),
                        !.accumulated_energy_kWh = Frozen(df, @)]
    /\ WritesInPlace
    /\ UNCHANGED <<args, weight_series, water_production, total, prev>>

\* round(production_step_lagged / intake_step * 100, 2), else 0.0
HarvestingEfficiency(lagged, intake) ==
    IF notnull(lagged) /\ notnull(intake) /\ intake > 0
    THEN RoundHalfEven(lagged * 100 * EffScale, intake)
    ELSE 0

\* lines 265-275
DpEfficiency ==
    /\ pc = "dp_efficiency"
    /\ LET intake == GroupDiff(df.accumulated_intake_water, df.block_id)
           no_lag == GroupDiff(df.water_production, df.block_id)
           lagged == GroupShiftBack(no_lag, df.block_id, args.lag_steps)
       IN  df' = [df EXCEPT
                    !.intake_step = intake,
                    !.production_step_no_lag = no_lag,
                    !.production_step_lagged = lagged,
                    !.harvesting_efficiency =
                        [i \in 1..NRows |-> HarvestingEfficiency(lagged[i], intake[i])]]
    /\ pc' = "dp_done"
    /\ WritesInPlace
    /\ UNCHANGED <<args, weight_series, water_production, total, prev>>

NextDp ==
    \/ DpEntry
    \/ DpTimestamps
    \/ DpStepTerms
    \/ DpWaterRaw
    \/ DpPauseMask
    \/ DpBlocks
    \/ DpAccumulate
    \/ DpFreeze
    \/ DpEfficiency

\* ---- the calls explored ------------------------------------------------
NumRows == 3

\* Two stations' readings, one row per tick: a large station whose every
\* step is one litre / one kWh, and a small one whose steps are fractions of
\* a millilitre.  At row `dropout` (0: never) the sensors report nothing.
Readings(profile, dropout) ==
    LET gone(i) == i = dropout
    IN  IF profile = "litre"
        THEN [timestamp |-> [i \in 1..NumRows |-> 100 * i],
              weight    |-> [i \in 1..NumRows |-> IF gone(i) THEN NaN ELSE 1000 * i],
              power     |-> [i \in 1..NumRows |-> IF gone(i) THEN NaN ELSE 36000],
              velocity  |-> [i \in 1..NumRows |-> IF gone(i) THEN NaN ELSE 10],
              ah        |-> [i \in 1..NumRows |-> 10]]
        ELSE [timestamp |-> [i \in 1..NumRows |-> 7 * i],
              weight    |-> [i \in 1..NumRows |-> IF gone(i) THEN NaN ELSE 100 + 7 * i],
              power     |-> [i \in 1..NumRows |-> IF gone(i) THEN NaN ELSE 100],
              velocity  |-> [i \in 1..NumRows |-> IF gone(i) THEN NaN ELSE 1],
              ah        |-> [i \in 1..NumRows |-> 1]]

AbsentColumn == [i \in 1..NumRows |-> "NaN"]
\* no session column: <<given, cells>>
NoSession == <<FALSE, [i \in 1..NumRows |-> NaN]>>

\* a flag column as the caller may pass it: <<given, cells>>
FlagColumns(cells) ==
    {<<FALSE, AbsentColumn>>} \cup {<<TRUE, c>> : c \in SeqsOfLen(cells, NumRows)}

InitDpWith(readings, reset, counting, freeze, session) ==
    /\ pc = "dp_entry"
    /\ df = [timestamp |-> readings.timestamp, weight |-> readings.weight,
             power |-> readings.power, velocity |-> readings.velocity,
             ah |-> readings.ah,
             reset |-> reset[2], counting |-> counting[2], freeze |-> freeze[2],
             session |-> session[2],
             sample_interval |-> <<>>, intake_step_L |-> <<>>,
             energy_step_from_power_kWh |-> <<>>, water_production_raw |-> <<>>,
             energy_step_kWh |-> <<>>, block_id |-> <<>>,
             accumulated_intake_water |-> <<>>, accumulated_energy_kWh |-> <<>>,
             production_step_L |-> <<>>, water_production |-> <<>>,
             intake_step |-> <<>>, production_step_no_lag |-> <<>>,
             production_step_lagged |-> <<>>, harvesting_efficiency |-> <<>>]
    /\ args = [intake_area |-> 1, lag_steps |-> 1,
               reset_col |-> reset[1], count_col |-> counting[1],
               freeze_col |-> freeze[1], session_col |-> session[1]]
    /\ weight_series = <<>>
    /\ water_production = <<>>
    /\ total = 0
    /\ prev = NaN
    /\ caller_df = df
    /\ alias = TRUE

\* process_data(df, reset_col=..., count_col=..., freeze_col=...) on a table
\* in timestamp order
Init ==
    \E profile \in {"litre", "fine"}, dropout \in 0..NumRows,
       reset \in FlagColumns({"False", "True"}),
       counting \in FlagColumns(Flags),
       freeze \in FlagColumns({"NaN", "True"}) :
        InitDpWith(Readings(profile, dropout), reset, counting, freeze, NoSession)

Next == NextDp

Spec == Init /\ [][Next]_vars

\* ---- calls that differ in their timestamps --------------------------------
MaxStamps == 4
Stamps == {0, 1, 10, 40}

\* a table of n rows in arrival order, every sensor reading present
SteadyReadings(stamps) ==
    [timestamp |-> stamps,
     weight    |-> [i \in Rows(stamps) |-> 100 + 7 * i],
     power     |-> [i \in Rows(stamps) |-> 100],
     velocity  |-> [i \in Rows(stamps) |-> 1],
     ah        |-> [i \in Rows(stamps) |-> 1],
     flags     |-> [i \in Rows(stamps) |-> "NaN"]]

\* process_data(df) on timestamps in any order, repeated or unparsable (NaT)
InitInterval ==
    \E stamps \in SeqsUpTo(Stamps \cup {NaN}, MaxStamps) :
        LET r == SteadyReadings(stamps)
        IN  InitDpWith(r, <<FALSE, r.flags>>, <<FALSE, r.flags>>, <<FALSE, r.flags>>,
                       <<FALSE, [i \in Rows(stamps) |-> NaN]>>)

SpecInterval == InitInterval /\ [][Next]_vars

\* ------------------------------------------------------------------------
\* Claims about data_play.py's process_data
\* ------------------------------------------------------------------------
Returned == pc = "dp_done"
IsReset(i) == args.reset_col /\ df.reset[i] = "True"
IsPaused(i) == args.count_col /\ df.counting[i] = "False"
IsFreeze(i) == args.freeze_col /\ df.freeze[i] = "True"
BlockRows(i) == {j \in 1..NRows : df.block_id[j] = df.block_id[i]}
BlockFirst(i) == CHOOSE j \in BlockRows(i) : \A k \in BlockRows(i) : j <= k

\* C4: with a reset column and no session column, at every row k whose reset
\* flag is true the three reported accumulations are that row's own
\* pause-masked step alone (at the column's precision: 3 decimals, 6 for the
\* energy); nothing of the rows before k is in them.
C4_ResetRowRestarts ==
    (Returned /\ args.reset_col /\ ~args.session_col) =>
        \A k \in 1..NRows : IsReset(k) =>
            /\ df.accumulated_intake_water[k] = Round3(df.intake_step_L[k])
            /\ df.accumulated_energy_kWh[k] = Round6(df.energy_step_kWh[k])
            /\ df.water_production[k] = Round3(df.production_step_L[k])

\* a reset row after rows that accumulated something, itself with a step
C4_Witness ==
    /\ Returned /\ args.reset_col
    /\ \E k \in 2..NRows :
          /\ IsReset(k)
          /\ df.accumulated_intake_water[k - 1] > 0
          /\ df.accumulated_energy_kWh[k - 1] > 0
          /\ df.intake_step_L[k] > 0
          /\ df.accumulated_intake_water[k] = Round3(df.intake_step_L[k])
          /\ df.energy_step_kWh[k] > 0
          /\ df.accumulated_energy_kWh[k] = Round6(df.energy_step_kWh[k])

\* the accumulations as reported before the freeze stage
UnfrozenIntake == RoundCol3(GroupCumsum(df.intake_step_L, df.block_id))
UnfrozenEnergy == RoundCol6(GroupCumsum(df.energy_step_kWh, df.block_id))
UnfrozenProduction == RoundCol3(GroupCumsum(df.production_step_L, df.block_id))

\* k is the first row of its block whose freeze flag is true
FirstFreezeRow(k) == IsFreeze(k) /\ \A j \in BlockRows(k) : j < k => ~IsFreeze(j)
FromRowOn(k) == {l \in BlockRows(k) : l >= k}

C6_PausedRowAddsNothing ==
    (Returned /\ args.count_col) =>
        /\ \A i \in 1..NRows : (IsPaused(i) /\ GroupPrev(df.block_id, i) # 0) =>
              LET j == GroupPrev(df.block_id, i)
              IN  /\ df.accumulated_intake_water[i] = df.accumulated_intake_water[j]
                  /\ df.accumulated_energy_kWh[i] = df.accumulated_energy_kWh[j]
                  /\ df.water_production[i] = df.water_production[j]
        /\ \A i \in 1..NRows : df.counting[i] = "NaN" =>
              /\ df.energy_step_kWh[i] = df.energy_step_from_power_kWh[i]
              /\ df.intake_step_L[i] =
                    IntakeStep(df.ah[i], df.velocity[i], df.sample_interval[i], args.intake_area)
        /\ (/\ df.counting = <<"True", "False", "True">>
            /\ ~args.reset_col /\ ~args.freeze_col
            /\ \A i \in 1..NRows :
                  IntakeStep(df.ah[i], df.velocity[i], df.sample_interval[i], args.intake_area)
                     = VolScale)
              => df.accumulated_intake_water = <<VolScale, VolScale, 2 * VolScale>>

\* C7 as stated: every sample_interval is strictly positive; the first row
\* and every row whose difference to the previous row is <= 0 carry the
\* median of the differences, or 30 s when there is none.
C7_IntervalPositive ==
    pc \notin {"dp_entry", "dp_timestamps"} =>
        LET raw == DiffSeconds(df.timestamp)
            m == _safe_median(Tail1(raw), FallbackInterval * TimeScale)
        IN  \A i \in 1..NRows :
                /\ df.sample_interval[i] > 0
                /\ (i = 1 \/ raw[i] <= 0) => df.sample_interval[i] = m

\* ========================================================================
\* data_play-01.py: process_data
\*
\* df holds timestamp, weight, power, velocity, ah as above and pump_on
\* (0, 1 or NaN).  args.pump_on_col and args.power_col say whether the table
\* has a pump_on and a power column; args.power_on_threshold is NaN when the
\* keyword is not given.
\* ========================================================================
\* trailing window of win rows ending at row i
Window(i, win) == Max2(1, i - win + 1)..i

RECURSIVE SumOver(_, _)
SumOver(col, rows) ==
    IF rows = {} THEN 0
    ELSE LET r == CHOOSE r \in rows : TRUE
         IN  col[r] + SumOver(col, rows \ {r})

\* Series.rolling(window=win, min_periods=1).sum()
RollingSum(col, win) ==
    [i \in Rows(col) |->
        LET valid == {j \in Window(i, win) : notnull(col[j])}
        IN  IF valid = {} THEN NaN ELSE SumOver(col, valid)]

\* boolean Series.rolling(window=win, min_periods=1).mean() >= 0.5
MostlyOn(flag, win) ==
    [i \in Rows(flag) |->
        2 * Cardinality({j \in Window(i, win) : flag[j]}) >= Cardinality(Window(i, win))]

\* lines 59-62, in 1/TimeScale s
DefaultMedian == 30

SampleInterval01(ts) ==
    LET dt == DiffSeconds(ts)
        med0 == IF Len(dt) > 1 THEN Median(Tail1(dt)) ELSE DefaultMedian * TimeScale
        med == IF isnull(med0) \/ med0 <= 0 THEN DefaultMedian * TimeScale ELSE med0
    IN  ClipLower(FillNa(dt, med), med \div 3)

\* line 52
D1Entry ==
    /\ pc = "d1_entry"
    /\ CopyOnEntry
    /\ pc' = "d1_timestamps"
    /\ UNCHANGED <<args, weight_series, water_production, total, prev>>

\* lines 55-62
D1Timestamps ==
    /\ pc = "d1_timestamps"
    /\ LET converted == [df EXCEPT !.timestamp = to_datetime(@)]
           sorted == SortedByTimestamp(converted)
       IN  /\ df' = [sorted EXCEPT !.sample_interval = SampleInterval01(sorted.timestamp)]
           /\ WritesThenRebinds(converted)
    /\ pc' = "d1_steps"
    /\ UNCHANGED <<args, weight_series, water_production, total, prev>>

\* lines 88-97: (ah * vel.clip(lower=0) * area * interval / 1000).fillna(0).clip(lower=0)
IntakeStep01(ah, vel, interval, intake_area) ==
    IF isnull(ah) \/ isnull(vel) \/ isnull(interval) THEN 0
    ELSE Max2(ah * Max2(vel, 0) * intake_area * interval, 0)

\* lines 100-103: power.fillna(0) * (interval / 3600) / 1000
EnergyStep01(power, interval) ==
    (IF isnull(power) THEN 0 ELSE power) * interval * (EnergyScale \div (TimeScale * 3600 * 1000))

\* lines 87-103
D1Steps ==
    /\ pc = "d1_steps"
    /\ df' = [df EXCEPT
                !.intake_step_L =
                    [i \in 1..NRows |->
                        IntakeStep01(df.ah[i], df.velocity[i], df.sample_interval[i], args.intake_area)],
                !.energy_step_kWh =
                    [i \in 1..NRows |-> EnergyStep01(df.power[i], df.sample_interval[i])]]
    /\ pc' = "d1_production"
    /\ WritesInPlace
    /\ UNCHANGED <<args, weight_series, water_production, total, prev>>

AllOneGroup(col) == [i \in Rows(col) |-> 0]

\* lines 105-113
D1Production ==
    /\ pc = "d1_production"
    /\ df' = [df EXCEPT
                !.water_production = calculate_water_production(df.weight),
                !.accumulated_intake_water =
                    RoundCol3(GroupCumsum(df.intake_step_L, AllOneGroup(df.intake_step_L))),
                !.accumulated_energy_kWh =
                    RoundCol6(GroupCumsum(df.energy_step_kWh, AllOneGroup(df.energy_step_kWh)))]
    /\ pc' = "d1_efficiency"
    /\ WritesInPlace
    /\ UNCHANGED <<args, weight_series, water_production, total, prev>>

\* win = max(int(lag_steps), 1)
Win(a) == Max2(a.lag_steps, 1)
\* prod_roll and intake_roll, lines 132-136
ProdRoll(d, a) == RollingSum(ClipLower(Diff(d.water_production), 0), Win(a))
IntakeRoll(d, a) == RollingSum(d.intake_step_L, Win(a))

\* every row counted as pumping
PumpOnWinAlways(d, a) == [i \in Rows(d.timestamp) |-> TRUE]

\* the power threshold consulted before the pump_on column
PumpOnWinPowerFirst(d, a) ==
    IF notnull(a.power_on_threshold) /\ a.power_col
    THEN MostlyOn([i \in Rows(d.power) |->
                      notnull(d.power[i]) /\ d.power[i] > a.power_on_threshold], Win(a))
    ELSE IF a.pump_on_col
    THEN MostlyOn([i \in Rows(d.pump_on) |-> d.pump_on[i] # 0], Win(a))
    ELSE [i \in Rows(d.timestamp) |->
            notnull(ProdRoll(d, a)[i]) /\ ProdRoll(d, a)[i] > a.min_prod_L]

\* pump_on_win, lines 139-147
PumpOnWin(d, a) ==
    IF a.pump_on_col
    THEN MostlyOn([i \in Rows(d.pump_on) |-> d.pump_on[i] # 0], Win(a))    \* astype(bool)
    ELSE IF notnull(a.power_on_threshold) /\ a.power_col
    THEN MostlyOn([i \in Rows(d.power) |->
                      notnull(d.power[i]) /\ d.power[i] > a.power_on_threshold], Win(a))
    ELSE [i \in Rows(d.timestamp) |->
            notnull(ProdRoll(d, a)[i]) /\ ProdRoll(d, a)[i] > a.min_prod_L]

\* good_den, good_num: comparisons with NaN are False
GoodDenAlways(intake_roll, a) == TRUE
GoodDen(intake_roll, a) == intake_roll >= a.min_intake_L
GoodNum(prod_roll, a) == notnull(prod_roll) /\ prod_roll >= a.min_prod_L

\* in_range: 0 <= eff_raw <= eff_max with eff_raw = 100 * prod_roll / intake_roll,
\* which is NaN or inf (never in range) when intake_roll is 0
InRangeNoCeiling(prod_roll, intake_roll, a) ==
    /\ notnull(prod_roll) /\ intake_roll > 0
    /\ 100 * prod_roll >= 0

InRange(prod_roll, intake_roll, a) ==
    /\ notnull(prod_roll) /\ intake_roll > 0
    /\ 100 * prod_roll >= 0
    /\ 100 * prod_roll <= a.eff_max * intake_roll

\* eff_raw.round(2), in 1/EffScale percent
EffRounded(prod_roll, intake_roll) == RoundHalfEven(100 * EffScale * prod_roll, intake_roll)

\* eff_raw.where(keep, np.nan).round(2), lines 150-160
Efficiency01(prod_roll, intake_roll, pump_on, a) ==
    IF /\ pump_on
       /\ GoodDen(intake_roll, a)
       /\ GoodNum(prod_roll, a)
       /\ InRange(prod_roll, intake_roll, a)
    THEN EffRounded(prod_roll, intake_roll)
    ELSE NaN

\* lines 129-161
D1Efficiency ==
    /\ pc = "d1_efficiency"
    /\ df' = [df EXCEPT
                !.harvesting_efficiency =
                    [i \in 1..NRows |->
                        Efficiency01(ProdRoll(df, args)[i], IntakeRoll(df, args)[i],
                                     PumpOnWin(df, args)[i], args)]]
    /\ pc' = "d1_done"
    /\ WritesInPlace
    /\ UNCHANGED <<args, weight_series, water_production, total, prev>>

Next01 == D1Entry \/ D1Timestamps \/ D1Steps \/ D1Production \/ D1Efficiency

InitD1With(readings, pump_on, a) ==
    /\ pc = "d1_entry"
    /\ df = [timestamp |-> readings.timestamp, weight |-> readings.weight,
             power |-> readings.power, velocity |-> readings.velocity,
             ah |-> readings.ah, pump_on |-> pump_on,
             sample_interval |-> <<>>, intake_step_L |-> <<>>, energy_step_kWh |-> <<>>,
             water_production |-> <<>>, accumulated_intake_water |-> <<>>,
             accumulated_energy_kWh |-> <<>>, harvesting_efficiency |-> <<>>]
    /\ args = a
    /\ weight_series = <<>>
    /\ water_production = <<>>
    /\ total = 0
    /\ prev = NaN
    /\ caller_df = df
    /\ alias = TRUE

\* the keyword defaults, lines 42-49: 0.02 L, 0.005 L, 120 %
DefaultArgs01 ==
    [intake_area |-> 1, lag_steps |-> 10,
     min_intake_L |-> (2 * VolScale) \div 100, min_prod_L |-> (5 * VolScale) \div 1000,
     eff_max |-> 120, power_on_threshold |-> NaN, pump_on_col |-> FALSE,
     power_col |-> TRUE]

\* process_data(df) on timestamps in any order, repeated or unparsable (NaT)
Init01Interval ==
    \E stamps \in SeqsUpTo(Stamps \cup {NaN}, MaxStamps) :
        LET r == SteadyReadings(stamps)
        IN  InitD1With(r, [i \in Rows(stamps) |-> NaN], DefaultArgs01)

Spec01Interval == Init01Interval /\ [][Next01]_vars

\* C8 as stated: with m the median of the consecutive differences (30 s when
\* it is undefined or <= 0) every row's sample_interval is
\* max(d, max(1, m/3)), d the row's difference to the previous row and m for
\* the first row; no row is removed.
IntervalFloor01(m) == Max2(TimeScale, m \div 3)

C8_IntervalFloor ==
    pc \in {"d1_steps", "d1_production", "d1_efficiency", "d1_done"} =>
        LET dt == DiffSeconds(df.timestamp)
            med0 == Median(Tail1(dt))
            m == IF isnull(med0) \/ med0 <= 0 THEN DefaultMedian * TimeScale ELSE med0
        IN  \A i \in 1..NRows :
                df.sample_interval[i] = Max2(IF i = 1 THEN m ELSE dt[i], IntervalFloor01(m))

\* ---- calls that differ in intake, production and pump indicator -----------
\* One row every 10 s with ah = 1 g/m3: a velocity of 1 m/s takes in 10 mL.
\* The balance rises by 0, 5, 6 or 30 g from row to row.
GatedReadings(vel, rise, power) ==
    LET RECURSIVE weight(_)
        weight(i) == IF i = 1 THEN 100 ELSE weight(i - 1) + rise[i]
    IN  [timestamp |-> [i \in 1..NumRows |-> 10 * i],
         weight    |-> [i \in 1..NumRows |-> weight(i)],
         power     |-> power,
         velocity  |-> vel,
         ah        |-> [i \in 1..NumRows |-> 1]]

\* <<the table has pump_on, pump_on, power (W), power_on_threshold (W), the
\* table has power>>: either indicator alone, neither, both with the power
\* contradicting pump_on, or a threshold for a table without power; the pump
\* draws 100 W when on and the threshold is 50 W
Indicators ==
    LET steady == [i \in 1..NumRows |-> 100]
        none == [i \in 1..NumRows |-> NaN]
        against(p) == [i \in 1..NumRows |-> IF p[i] = 0 THEN 100 ELSE 0]
    IN  {<<FALSE, none, steady, NaN, TRUE>>}
        \cup {<<TRUE, p, steady, NaN, TRUE>> : p \in SeqsOfLen({0, 1}, NumRows)}
        \cup {<<FALSE, none, w, 50, TRUE>> : w \in SeqsOfLen({0, 100}, NumRows)}
        \cup {<<TRUE, p, against(p), 50, TRUE>> : p \in SeqsOfLen({0, 1}, NumRows)}
        \cup {<<FALSE, none, none, 50, FALSE>>}

Init01 ==
    \E vel \in SeqsOfLen({0, 10, 20}, NumRows),
       rise \in SeqsOfLen({0, 5, 6, 30}, NumRows),
       ind \in Indicators,
       lag \in {0, 2},
       ceiling \in {50, 120} :
        /\ rise[1] = 0
        /\ InitD1With(GatedReadings(vel, rise, ind[3]), ind[2],
                      [DefaultArgs01 EXCEPT !.lag_steps = lag, !.eff_max = ceiling,
                                            !.pump_on_col = ind[1],
                                            !.power_on_threshold = ind[4],
                                            !.power_col = ind[5]])

Spec01 == Init01 /\ [][Next01]_vars

\* ------------------------------------------------------------------------
\* Claims about data_play-01.py's process_data
\* ------------------------------------------------------------------------
Returned01 == pc = "d1_done"
\* the sums over the trailing window of max(lag_steps, 1) rows ending at row i
WindowRows(i) == {j \in 1..NRows : j <= i /\ j > i - Max2(args.lag_steps, 1)}
WindowIntake(i) == SumOver(df.intake_step_L, WindowRows(i))
\* production gained from row j - 1 to row j; no gain is known at the first row
WindowProduction(i) ==
    SumOver([j \in 1..NRows |->
                IF j = 1 THEN 0 ELSE Max2(df.water_production[j] - df.water_production[j - 1], 0)],
            WindowRows(i))
\* row i (i > 1) passes the pump gate and the production gate
FullyGated(i) ==
    /\ PumpOnWin(df, args)[i]
    /\ WindowProduction(i) >= args.min_prod_L

\* C9: at every row whose window intake sum is below min_intake_L the
\* efficiency is the no-value marker, whatever production, pump_on and power.
C9_LowIntakeNoValue ==
    Returned01 =>
        \A i \in 1..NRows :
            WindowIntake(i) < args.min_intake_L => isnull(df.harvesting_efficiency[i])

\* a row with some intake below the minimum whose production and pump would
\* give a plausible ratio, and which reports no value
C9_Witness ==
    /\ Returned01
    /\ \E i \in 2..NRows :
          /\ WindowIntake(i) > 0 /\ WindowIntake(i) < args.min_intake_L
          /\ FullyGated(i)
          /\ 100 * WindowProduction(i) <= args.eff_max * WindowIntake(i)
          /\ isnull(df.harvesting_efficiency[i])

NoValidRatio(i) ==
    \/ isnull(df.intake_step[i]) \/ df.intake_step[i] <= 0
    \/ isnull(df.production_step_lagged[i])
    \/ df.production_step_lagged[i] = 0

\* C11 as stated: on every row where the efficiency ratio cannot be validly
\* computed, harvesting_efficiency is the no-value marker, never the number 0.
C11_InvalidIsNoValue ==
    Returned =>
        \A i \in 1..NRows : NoValidRatio(i) => isnull(df.harvesting_efficiency[i])

\* ------------------------------------------------------------------------
\* Further claims about data_play-01.py's process_data
\* ------------------------------------------------------------------------
\* neither a pump_on column nor power_on_threshold
NoIndicator == ~args.pump_on_col /\ isnull(args.power_on_threshold)

\* v is ratio 100 * num / den rounded to 2 decimals (den > 0), v in 1/EffScale %
IsRounded(v, num, den) ==
    LET exact == 100 * EffScale * num
        off == IF v * den >= exact THEN v * den - exact ELSE exact - v * den
    IN  2 * off <= den

\* C12 as stated: without a pump_on column and without power_on_threshold a
\* row reports a value exactly when its window intake sum >= min_intake_L, its
\* window production sum >= min_prod_L and 100 * production / intake lies in
\* [0, eff_max]; the value is that ratio rounded to 2 decimals.
C12_ValidExactlyWhenGated ==
    (Returned01 /\ NoIndicator) =>
        \A i \in 1..NRows :
            LET wi == WindowIntake(i)
                wp == WindowProduction(i)
                gated == /\ wi >= args.min_intake_L
                         /\ i > 1 /\ wp >= args.min_prod_L
                         /\ wi > 0 /\ 100 * wp <= args.eff_max * wi
            IN  /\ notnull(df.harvesting_efficiency[i]) <=> gated
                /\ gated => IsRounded(df.harvesting_efficiency[i], wp, wi)

\* C12 amended: as above with the window production sum strictly above
\* min_prod_L (the default pump gate is prod_roll > min_prod_L); a window
\* whose production equals its intake reports 100.0.
C12_ValidWhenStrictlyProducing ==
    (Returned01 /\ NoIndicator) =>
        \A i \in 1..NRows :
            LET wi == WindowIntake(i)
                wp == WindowProduction(i)
                gated == /\ wi >= args.min_intake_L
                         /\ i > 1 /\ wp > args.min_prod_L
                         /\ wi > 0 /\ 100 * wp <= args.eff_max * wi
            IN  /\ notnull(df.harvesting_efficiency[i]) <=> gated
                /\ gated => IsRounded(df.harvesting_efficiency[i], wp, wi)
                /\ (gated /\ wp = wi) => df.harvesting_efficiency[i] = 100 * EffScale

\* one row reports the ratio of a window producing more than min_prod_L, and
\* another, whose window production is exactly min_prod_L with enough intake
\* and a ratio in range, reports no value
C12_Witness ==
    /\ Returned01 /\ NoIndicator
    /\ \E i \in 2..NRows :
          /\ WindowIntake(i) >= args.min_intake_L
          /\ WindowProduction(i) > args.min_prod_L
          /\ notnull(df.harvesting_efficiency[i])
          /\ IsRounded(df.harvesting_efficiency[i], WindowProduction(i), WindowIntake(i))
    /\ \E j \in 2..NRows :
          /\ WindowIntake(j) >= args.min_intake_L
          /\ WindowProduction(j) = args.min_prod_L
          /\ 100 * WindowProduction(j) <= args.eff_max * WindowIntake(j)
          /\ isnull(df.harvesting_efficiency[j])

\* ------------------------------------------------------------------------
\* data_play.py: calls whose power and velocity readings may be negative
\* ------------------------------------------------------------------------
\* one row every 100 s, ah = 10 g/m3, the balance rising by 1 kg per row
SignedReadings(power, vel) ==
    [timestamp |-> [i \in 1..NumRows |-> 100 * i],
     weight    |-> [i \in 1..NumRows |-> 1000 * i],
     power     |-> power,
     velocity  |-> vel,
     ah        |-> [i \in 1..NumRows |-> 10]]

InitSigned ==
    \E power \in SeqsOfLen({0 - 36000, 0, 36000}, NumRows),
       vel \in SeqsOfLen({0 - 10, 10}, NumRows),
       reset \in FlagColumns({"False", "True"}) :
        InitDpWith(SignedReadings(power, vel), reset,
                   <<FALSE, AbsentColumn>>, <<FALSE, AbsentColumn>>, NoSession)

SpecSigned == InitSigned /\ [][Next]_vars

\* C13 as stated: every intake step and every energy step is >= 0, and the
\* three accumulations never decrease from a row to the next row of its block.
C13_StepsNonNegative ==
    Returned =>
        /\ \A i \in 1..NRows :
              /\ df.intake_step_L[i] >= 0
              /\ notnull(df.energy_step_kWh[i]) /\ df.energy_step_kWh[i] >= 0
        /\ \A i \in 1..NRows : GroupPrev(df.block_id, i) # 0 =>
              LET j == GroupPrev(df.block_id, i)
              IN  /\ df.accumulated_intake_water[i] >= df.accumulated_intake_water[j]
                  /\ df.accumulated_energy_kWh[i] >= df.accumulated_energy_kWh[j]
                  /\ df.water_production[i] >= df.water_production[j]

\* ------------------------------------------------------------------------
\* data_play.py: calls with a session column
\* ------------------------------------------------------------------------
\* the session ids of two stations
Sessions == {1, 2}

\* process_data(df, session_col=..., reset_col=...) on rows of two stations
\* in timestamp order, each station's rows adjacent or interleaved
InitSession ==
    \E profile \in {"litre", "fine"},
       reset \in FlagColumns({"False", "True"}),
       session \in {NoSession} \cup {<<TRUE, c>> : c \in SeqsOfLen(Sessions, NumRows)} :
        InitDpWith(Readings(profile, 0), reset,
                   <<FALSE, AbsentColumn>>, <<FALSE, AbsentColumn>>, session)

SpecSession == InitSession /\ [][Next]_vars

BlocksBuilt == pc \in {"dp_accumulate", "dp_freeze", "dp_efficiency", "dp_done"}
SessionChanges(i) == args.session_col /\ df.session[i] # df.session[i - 1]

\* C14 as stated: _block_id is non-decreasing along the rows, and a row has a
\* _block_id different from the previous row's exactly when its reset flag is
\* true or its session differs from the previous row's; consecutive reset
\* rows are single-row blocks.
C14_BlocksFollowResetsAndSessions ==
    BlocksBuilt =>
        \A i \in 2..NRows :
            /\ df.block_id[i] >= df.block_id[i - 1]
            /\ df.block_id[i] # df.block_id[i - 1] <=> (IsReset(i) \/ SessionChanges(i))
            /\ (IsReset(i) /\ IsReset(i - 1)) => BlockRows(i - 1) = {i - 1}

\* the table with the rows of every session but s silenced: no air flow, no
\* power, no balance reading
Silenced(d, s) ==
    [d EXCEPT
        !.velocity = [i \in Rows(d.session) |-> IF d.session[i] = s THEN @[i] ELSE 0],
        !.power = [i \in Rows(d.session) |-> IF d.session[i] = s THEN @[i] ELSE 0],
        !.weight = [i \in Rows(d.session) |-> IF d.session[i] = s THEN @[i] ELSE NaN]]

\* the three accumulations process_data reports for the readings of v, the
\* timestamps, sessions and flags being those of df (no freeze column)
AccumulatedFor(v) ==
    LET intake == _apply_pause_mask(
                      [i \in 1..NRows |->
                          IntakeStep(v.ah[i], v.velocity[i], df.sample_interval[i],
                                     args.intake_area)],
                      df.counting, args.count_col)
        energy == _apply_pause_mask(EnergyStepFromPower(v.power, df.timestamp),
                                    df.counting, args.count_col)
        raw == calculate_water_production(v.weight)
        blocks == BlockIds(df, args)
        prod_step == ProductionStep([df EXCEPT !.water_production_raw = raw,
                                                !.block_id = blocks], args)
    IN  [accumulated_intake_water |-> RoundCol3(GroupCumsum(intake, blocks)),
         accumulated_energy_kWh |-> RoundCol6(GroupCumsum(energy, blocks)),
         water_production |-> RoundCol3(GroupCumsum(prod_step, blocks))]

\* C15 as stated: with a session column the accumulations of a row depend
\* only on the rows of its session: silencing the readings of every other
\* session leaves them unchanged.
C15_SessionsIndependent ==
    (Returned /\ args.session_col /\ ~args.freeze_col) =>
        \A s \in Sessions :
            LET other == AccumulatedFor(Silenced(df, s))
            IN  \A i \in 1..NRows : df.session[i] = s =>
                    /\ df.accumulated_intake_water[i] = other.accumulated_intake_water[i]
                    /\ df.accumulated_energy_kWh[i] = other.accumulated_energy_kWh[i]
                    /\ df.water_production[i] = other.water_production[i]

\* ------------------------------------------------------------------------
\* Claims about the energy step of data_play.py's process_data
\* ------------------------------------------------------------------------
\* power (W) x interval (1/TimeScale s) / 3600 / 1000, in 1/EnergyScale kWh
EnergyOver(power, interval) ==
    power * interval * (EnergyScale \div (TimeScale * 3600 * 1000))

\* C16 as stated: the energy step of each row is its power times its own
\* sample_interval (in hours) / 1000.
C16_EnergyUsesOwnInterval ==
    Returned =>
        \A i \in 1..NRows : notnull(df.power[i]) =>
            df.energy_step_from_power_kWh[i] = EnergyOver(df.power[i], df.sample_interval[i])

\* C17 as stated: a row whose power is missing has an energy step of 0, and
\* from that row on accumulated_energy (kWh) is a number, the sum of the
\* block's non-missing energy steps so far.
C17_MissingPowerCountsZero ==
    (Returned /\ ~args.freeze_col) =>
        \A i \in 1..NRows : isnull(df.power[i]) =>
            /\ df.energy_step_kWh[i] = 0
            /\ \A l \in BlockRows(i) : l >= i =>
                  /\ notnull(df.accumulated_energy_kWh[l])
                  /\ df.accumulated_energy_kWh[l] =
                        Round6(SumOver(df.energy_step_kWh,
                                       {j \in BlockRows(l) :
                                           j <= l /\ notnull(df.energy_step_kWh[j])}))

\* ========================================================================
\* ui_display.py: process_data
\*
\* ui_display.py carries its own copies of _block_ids_from_resets,
\* _apply_pause_mask, _freeze_after_flag and calculate_water_production; they
\* compute what data_play.py's do, and the operators above stand for both.
\* df holds the same input columns as for data_play.py.
\* ========================================================================
UiFallbackInterval == 30

\* lines 132-135: `median_interval or 30` is 30 for a median of 0 and stays
\* NaN for a NaN median (NaN is truthy)
UiSampleInterval(ts) ==
    LET raw == DiffSeconds(ts)
        median_interval == Median(Tail1(raw))
        fill == IF median_interval = 0 THEN UiFallbackInterval * TimeScale ELSE median_interval
        filled == FillNa(raw, fill)
    IN  [i \in Rows(ts) |-> IF notnull(filled[i]) /\ filled[i] < 0 THEN fill ELSE filled[i]]

\* line 126
UiEntry ==
    /\ pc = "ui_entry"
    /\ CopyOnEntry
    /\ pc' = "ui_timestamps"
    /\ UNCHANGED <<args, weight_series, water_production, total, prev>>

\* lines 129-135
UiTimestamps ==
    /\ pc = "ui_timestamps"
    /\ LET converted == [df EXCEPT !.timestamp = to_datetime(@)]
           sorted == SortedByTimestamp(converted)
       IN  /\ df' = [sorted EXCEPT !.sample_interval = UiSampleInterval(sorted.timestamp)]
           /\ WritesThenRebinds(converted)
    /\ pc' = "ui_weight"
    /\ UNCHANGED <<args, weight_series, water_production, total, prev>>

\* lines 180-183: the running total, regrouped by UiAccumulate
UiWater ==
    /\ pc = "ui_weight"
    /\ df' = [df EXCEPT !.water_production = calculate_water_production(df.weight)]
    /\ pc' = "ui_steps"
    /\ WritesInPlace
    /\ UNCHANGED <<args, weight_series, water_production, total, prev>>

\* lines 203-212: freq_seconds is the median timestamp difference, 0 if none
UiEnergyStepFromPower(power, ts) ==
    LET freq_seconds == Median(DiffSeconds(ts))
        freq == IF notnull(freq_seconds) THEN freq_seconds ELSE 0
    IN  [i \in Rows(power) |->
            IF isnull(power[i]) THEN NaN
            ELSE power[i] * freq * (EnergyScale \div (TimeScale * 3600 * 1000))]

\* lines 186-212
UiSteps ==
    /\ pc = "ui_steps"
    /\ df' = [df EXCEPT
                !.intake_step_L =
                    [i \in 1..NRows |->
                        IntakeStep(df.ah[i], df.velocity[i], df.sample_interval[i], args.intake_area)],
                !.energy_step_from_power_kWh = UiEnergyStepFromPower(df.power, df.timestamp)]
    /\ pc' = "ui_mask"
    /\ WritesInPlace
    /\ UNCHANGED <<args, weight_series, water_production, total, prev>>

\* lines 235-239
UiPauseMask ==
    /\ pc = "ui_mask"
    /\ df' = [df EXCEPT
                !.intake_step_L = _apply_pause_mask(@, df.counting, args.count_col),
                !.energy_step_from_power_kWh = _apply_pause_mask(@, df.counting, args.count_col)]
    /\ pc' = "ui_blocks"
    /\ WritesInPlace
    /\ UNCHANGED <<args, weight_series, water_production, total, prev>>

\* lines 242-256
UiBlocks ==
    /\ pc = "ui_blocks"
    /\ df' = [df EXCEPT !.block_id = BlockIds(df, args)]
    /\ pc' = "ui_accumulate"
    /\ WritesInPlace
    /\ UNCHANGED <<args, weight_series, water_production, total, prev>>

\* Series.fillna(other): a missing cell takes the other series' cell
FillNaFrom(col, other) == [i \in Rows(col) |-> IF isnull(col[i]) THEN other[i] ELSE col[i]]

\* lines 264-265: groupby(_block_id)[water_production].diff()
\*                    .fillna(df["water_production"]).clip(lower=0)
UiProductionStep(d) ==
    ClipLower(FillNaFrom(GroupDiff(d.water_production, d.block_id), d.water_production), 0)

\* lines 259-271
UiAccumulate ==
    /\ pc = "ui_accumulate"
    /\ LET prod_step == UiProductionStep(df)
       IN  df' = [df EXCEPT
                    !.accumulated_intake_water =
                        RoundCol3(GroupCumsum(df.intake_step_L, df.block_id)),
                    !.production_step_L = prod_step,
                    !.water_production = RoundCol3(GroupCumsum(prod_step, df.block_id)),
                    !.energy_step_kWh = df.energy_step_from_power_kWh,
                    !.accumulated_energy_kWh =
                        RoundCol6(GroupCumsum(df.energy_step_from_power_kWh, df.block_id))]
    /\ pc' = "ui_freeze"
    /\ WritesInPlace
    /\ UNCHANGED <<args, weight_series, water_production, total, prev>>

\* lines 274-283
UiFreeze ==
    /\ pc = "ui_freeze"
    /\ IF ~FreezeApplies(df, args)
       THEN pc' = "ui_efficiency" /\ df' = df
       ELSE IF \E i \in 1..NRows : FreezeRaises(BlockLabels(df, i), FlagsToBool(df.freeze, FALSE))
       THEN pc' = "ui_raised" /\ df' = df
       ELSE /\ pc' = "ui_efficiency"
            /\ df' = [df EXCEPT
                        !.accumulated_intake_water = Frozen(df, @),
                        !.water_production = Frozen(df, @),
                        !.accumulated_energy_kWh = Frozen(df, @)]
    /\ WritesInPlace
    /\ UNCHANGED <<args, weight_series, water_production, total, prev>>

\* lines 286-295
UiEfficiency ==
    /\ pc = "ui_efficiency"
    /\ LET intake == GroupDiff(df.accumulated_intake_water, df.block_id)
           step == GroupDiff(df.water_production, df.block_id)
           lagged == GroupShiftBack(step, df.block_id, args.lag_steps)
       IN  df' = [df EXCEPT
                    !.intake_step = intake,
                    !.production_step = step,
                    !.production_step_lagged = lagged,
                    !.harvesting_efficiency =
                        [i \in 1..NRows |-> HarvestingEfficiency(lagged[i], intake[i])]]
    /\ pc' = "ui_done"
    /\ WritesInPlace
    /\ UNCHANGED <<args, weight_series, water_production, total, prev>>

NextUi ==
    \/ UiEntry
    \/ UiTimestamps
    \/ UiWater
    \/ UiSteps
    \/ UiPauseMask
    \/ UiBlocks
    \/ UiAccumulate
    \/ UiFreeze
    \/ UiEfficiency

InitUiWith(readings, reset, counting, freeze, session) ==
    /\ pc = "ui_entry"
    /\ df = [timestamp |-> readings.timestamp, weight |-> readings.weight,
             power |-> readings.power, velocity |-> readings.velocity,
             ah |-> readings.ah,
             reset |-> reset[2], counting |-> counting[2], freeze |-> freeze[2],
             session |-> session[2],
             sample_interval |-> <<>>, water_production |-> <<>>,
             intake_step_L |-> <<>>, energy_step_from_power_kWh |-> <<>>,
             block_id |-> <<>>, accumulated_intake_water |-> <<>>,
             production_step_L |-> <<>>, energy_step_kWh |-> <<>>,
             accumulated_energy_kWh |-> <<>>,
             intake_step |-> <<>>, production_step |-> <<>>,
             production_step_lagged |-> <<>>, harvesting_efficiency |-> <<>>]
    /\ args = [intake_area |-> 1, lag_steps |-> 1,
               reset_col |-> reset[1], count_col |-> counting[1],
               freeze_col |-> freeze[1], session_col |-> session[1]]
    /\ weight_series = <<>>
    /\ water_production = <<>>
    /\ total = 0
    /\ prev = NaN
    /\ caller_df = df
    /\ alias = TRUE

\* ---- the calls explored ------------------------------------------------
\* one row every 100 s taking in 1 L and 1 kWh, the balance reading as given
BalanceReadings(weight) ==
    [timestamp |-> [i \in 1..NumRows |-> 100 * i],
     weight    |-> weight,
     power     |-> [i \in 1..NumRows |-> 36000],
     velocity  |-> [i \in 1..NumRows |-> 10],
     ah        |-> [i \in 1..NumRows |-> 10]]

\* process_data(df, reset_col=..., freeze_col=...) on balance traces that
\* rise, drop and have missing readings
InitUi ==
    \E weight \in SeqsOfLen(Weights \cup {NaN}, NumRows),
       reset \in FlagColumns({"False", "True"}),
       freeze \in {<<FALSE, AbsentColumn>>,
                   <<TRUE, [i \in 1..NumRows |-> IF i = NumRows THEN "True" ELSE "False"]>>} :
        InitUiWith(BalanceReadings(weight), reset, <<FALSE, AbsentColumn>>, freeze, NoSession)

SpecUi == InitUi /\ [][NextUi]_vars

\* ------------------------------------------------------------------------
\* Claims about ui_display.py's process_data
\* ------------------------------------------------------------------------
ReturnedUi == pc = "ui_done"
NoControls == ~args.reset_col /\ ~args.count_col /\ ~args.freeze_col /\ ~args.session_col

\* C19 as stated: with no control column, accumulated_intake_water is the
\* running sum of all intake steps and water_production at every row with a
\* weight reading is calculate_water_production's output at that row.
C19_MatchesPlainPipeline ==
    (ReturnedUi /\ NoControls) =>
        \A i \in 1..NRows :
            /\ df.accumulated_intake_water[i] = Round3(SumOver(df.intake_step_L, 1..i))
            /\ notnull(df.weight[i]) =>
                  df.water_production[i] = calculate_water_production(df.weight)[i]

\* C20 as stated: at a row whose reset flag is true, water_production holds
\* nothing produced before that row: it is at most the rise of the balance
\* from the previous row to that row.
C20_ResetRestartsProduction ==
    (ReturnedUi /\ args.reset_col /\ ~args.freeze_col) =>
        \A k \in 2..NRows :
            (IsReset(k) /\ notnull(df.weight[k]) /\ notnull(df.weight[k - 1])) =>
                df.water_production[k] <= GramsToLitres(Max2(df.weight[k] - df.weight[k - 1], 0))

\* ========================================================================
\* The three process_data variants and the caller's table
\* ========================================================================
\* any of the three functions called on a table whose timestamps are in any
\* order, repeated, missing or unparsable
InitCalls ==
    \E stamps \in SeqsUpTo(Stamps \cup {NaN, Unparsable}, MaxStamps) :
        LET r == SteadyReadings(stamps)
            none == <<FALSE, r.flags>>
            nosession == <<FALSE, [i \in Rows(stamps) |-> NaN]>>
        IN  \/ InitDpWith(r, none, none, none, nosession)
            \/ InitD1With(r, [i \in Rows(stamps) |-> NaN], DefaultArgs01)
            \/ InitUiWith(r, none, none, none, nosession)

NextCalls == NextDp \/ Next01 \/ NextUi

SpecCalls == InitCalls /\ [][NextCalls]_vars

\* C18: no step of any process_data variant changes the table the caller
\* passed: its rows, their order, its columns and its values stay as they were
\* before the call.
C18_CallerTableUntouched == [][caller_df' = caller_df]_vars

\* a call has returned a table that lost an unparsable row and gained the
\* derived columns, while the caller's table still has the row and no
\* derived column
C18_Witness ==
    /\ pc \in {"dp_done", "d1_done", "ui_done"}
    /\ ~alias
    /\ \E i \in Rows(caller_df.timestamp) : caller_df.timestamp[i] = Unparsable
    /\ Len(df.timestamp) < Len(caller_df.timestamp)
    /\ Len(df.timestamp) > 0
    /\ caller_df.sample_interval = <<>>
    /\ Len(df.sample_interval) = Len(df.timestamp)
    /\ Len(df.harvesting_efficiency) = Len(df.timestamp)

\* ------------------------------------------------------------------------
\* The pump indicator of data_play-01.py's process_data
\* ------------------------------------------------------------------------
\* at least half of the rows of row i's window are among the rows of on
MostlyOnAt(i, on) ==
    2 * Cardinality(WindowRows(i) \cap on) >= Cardinality(WindowRows(i))

PumpColumnOn == {j \in 1..NRows : df.pump_on[j] # 0}
PowerAboveThreshold ==
    {j \in 1..NRows : notnull(df.power[j]) /\ df.power[j] > args.power_on_threshold}

\* the indicator chosen in the order pump_on column, power threshold,
\* production of the window
ChosenIndicatorOn(i) ==
    IF args.pump_on_col THEN MostlyOnAt(i, PumpColumnOn)
    ELSE IF notnull(args.power_on_threshold) /\ args.power_col
    THEN MostlyOnAt(i, PowerAboveThreshold)
    ELSE i > 1 /\ WindowProduction(i) > args.min_prod_L

\* the intake, production and range gates of row i
OtherGatesPass(i) ==
    /\ WindowIntake(i) >= args.min_intake_L
    /\ i > 1 /\ WindowProduction(i) >= args.min_prod_L
    /\ 100 * WindowProduction(i) <= args.eff_max * WindowIntake(i)

\* C21: the pump indicator is the pump_on column if the table has one (even
\* when power_on_threshold is given), else power > power_on_threshold if that
\* is given and the table has power, else window production > min_prod_L; a
\* row whose chosen indicator is not on reports no value, and the chosen
\* indicator alone decides among the rows passing the other gates.
C21_IndicatorPriority ==
    Returned01 =>
        \A i \in 1..NRows :
            /\ ~ChosenIndicatorOn(i) => isnull(df.harvesting_efficiency[i])
            /\ (ChosenIndicatorOn(i) /\ OtherGatesPass(i)) => notnull(df.harvesting_efficiency[i])

\* a table with pump_on and a power that contradicts it: one row reports a
\* value with the pump column on and the power below the threshold, another
\* passing the other gates reports none with the column off and the power above
C21_Witness ==
    /\ Returned01 /\ args.pump_on_col /\ notnull(args.power_on_threshold) /\ args.power_col
    /\ \E i \in 2..NRows :
          /\ MostlyOnAt(i, PumpColumnOn) /\ ~MostlyOnAt(i, PowerAboveThreshold)
          /\ notnull(df.harvesting_efficiency[i])
    /\ \E j \in 2..NRows :
          /\ ~MostlyOnAt(j, PumpColumnOn) /\ MostlyOnAt(j, PowerAboveThreshold)
          /\ OtherGatesPass(j)
          /\ isnull(df.harvesting_efficiency[j])

\* ------------------------------------------------------------------------
\* Production across missing weight readings (data_play.py)
\* ------------------------------------------------------------------------
OneBlock == \A i, j \in 1..NRows : df.block_id[i] = df.block_id[j]
WithReading == {i \in 1..NRows : notnull(df.weight[i])}
FirstReading == CHOOSE i \in WithReading : \A j \in WithReading : i <= j

\* C22: in a single block with no paused row and no true freeze flag, at
\* every row with a weight reading water_production is the normalizer's
\* cumulative output at that row minus its output at the first row with a
\* reading (at 3 decimals), whatever readings are missing in between.
C22_ProductionConserved ==
    (/\ Returned /\ OneBlock
     /\ \A i \in 1..NRows : ~IsPaused(i) /\ ~IsFreeze(i)) =>
        \A i \in WithReading :
            df.water_production[i] =
                Round3(calculate_water_production(df.weight)[i]
                       - calculate_water_production(df.weight)[FirstReading])

\* ------------------------------------------------------------------------
\* The rows the freeze stage leaves alone (data_play.py)
\* ------------------------------------------------------------------------
\* no row of i's block up to row i has a true freeze flag
NotYetFrozen(i) == \A j \in BlockRows(i) : j <= i => ~IsFreeze(j)

\* C23: the freeze stage changes only the rows at or after the first
\* freeze-true row of a block: at every earlier row of that block, and at
\* every row of a block with no true freeze flag, the three accumulations
\* are the ones reported without a freeze column.
C23_FreezeLeavesEarlierRows ==
    (Returned /\ args.freeze_col) =>
        \A i \in 1..NRows : NotYetFrozen(i) =>
            /\ df.accumulated_intake_water[i] = UnfrozenIntake[i]
            /\ df.water_production[i] = UnfrozenProduction[i]
            /\ df.accumulated_energy_kWh[i] = UnfrozenEnergy[i]

\* two blocks, the first without a true freeze flag and the second frozen
\* from its second row: the frozen row differs from its unfrozen value while
\* the row before it and the rows of the first block keep theirs
C23_Witness ==
    /\ Returned /\ args.freeze_col
    /\ \E k \in 2..NRows :
          /\ FirstFreezeRow(k) /\ k > BlockFirst(k)
          /\ df.accumulated_intake_water[k] # UnfrozenIntake[k]
          /\ UnfrozenIntake[k - 1] > 0
          /\ df.accumulated_intake_water[k - 1] = UnfrozenIntake[k - 1]
          /\ \E i \in 1..NRows :
                /\ df.block_id[i] # df.block_id[k]
                /\ \A j \in BlockRows(i) : ~IsFreeze(j)
                /\ df.accumulated_intake_water[i] = UnfrozenIntake[i]
                /\ UnfrozenIntake[i] > 0

=============================================================================
